---------------------------- MODULE Spec2Model ----------------------------
(***************************************************************************)
(* Start-list scrapers: the three parse_start_list variants and their      *)
(* serializers.                                                            *)
(*   "usamw" : src/usamw/usamw_scraper.py   (fixed-grammar, CSV roster)    *)
(*   "other" : src/usaw_other_scraper.py    (heterogeneous, CSV)           *)
(*   "pdf"   : src/pdf_scraper.py           (tabular-anchor, TS literal)   *)
(* A line of text is a TLA+ string; the parsers work on its characters.    *)
(***************************************************************************)
EXTENDS Integers, Sequences, FiniteSets, TLC

VARIABLES
    variant,                \* which script runs
    pc,                     \* position of the run
    text,                   \* "other": lines = text.split('\n')
    nread,                  \* number of lines consumed so far
    entries,                \* parse_start_list: entries
    skipped,                \* usaw_other parse_start_list: skipped
    used_member_ids,        \* usamw parse_start_list: used_member_ids
    cur,                    \* usamw: the match waiting for its member_id;
                            \* pdf: the line of the current turn of the loop
    start_processing,       \* pdf parse_start_list: start_processing / header_seen
    data,                   \* the serializer's input, in parse order
    filtered_data,          \* save_to_json: filtered_data after the sort
    emitted,                \* save_to_json: number of records written
    current_session_number, \* save_to_json: current_session_number
    current_platform,       \* save_to_json: current_platform
    out,                    \* what the serializer wrote, one element per line
    sorted_data             \* usamw save_to_csv: sorted_data

vars == <<variant, pc, text, nread, entries, skipped, used_member_ids, cur,
          start_processing, data, filtered_data, emitted,
          current_session_number, current_platform, out, sorted_data>>

-----------------------------------------------------------------------------
(* Bounds of the model.                                                    *)

\* lines of one pdf text
MaxLines == 4
\* lines of one text of the heterogeneous variant (kept whole: the header
\* search looks ahead)
MaxOtherLines == 3
\* random.randint(IdLo, IdLo + IdSpan): the code's span is 1000 (2000..3000);
\* the model draws from a shorter range so that its exhaustion is reachable
IdSpan == 2

IdLo == 2000
IdHi == IdLo + IdSpan
\* usamw texts are long enough to outnumber the identifier range
MaxMwLines == IdSpan + 2

\* Python values of a variable that holds more than one type
PyNone == [t |-> "none"]
PyInt(n) == [t |-> "int", v |-> n]
PyStr(s) == [t |-> "str", v |-> s]

-----------------------------------------------------------------------------
(* Python str operations, on TLA+ strings.                                 *)

Ch(s, i) == SubSeq(s, i, i)

Digits == {"0", "1", "2", "3", "4", "5", "6", "7", "8", "9"}
UpperAlpha == "ABCDEFGHIJKLMNOPQRSTUVWXYZ"
LowerAlpha == "abcdefghijklmnopqrstuvwxyz"
UpperSet == {Ch(UpperAlpha, i) : i \in 1..26}
LowerSet == {Ch(LowerAlpha, i) : i \in 1..26}
Letters == UpperSet \cup LowerSet
\* str.strip(), str.split() and the regex class \s (the characters a line
\* left by split('\n') can hold here)
Whitespace == {" ", "\t"}

AllIn(s, S) == \A i \in 1..Len(s) : Ch(s, i) \in S
AnyIn(s, S) == \E i \in 1..Len(s) : Ch(s, i) \in S

\* str.isdigit()
IsDigitStr(s) == Len(s) >= 1 /\ AllIn(s, Digits)

DigitVal(c) == CHOOSE d \in 0..9 : Ch("0123456789", d + 1) = c

RECURSIVE ToInt(_)
\* int(s) for a string of digits
ToInt(s) ==
    IF Len(s) = 0 THEN 0
    ELSE 10 * ToInt(SubSeq(s, 1, Len(s) - 1)) + DigitVal(Ch(s, Len(s)))

StartsWith(s, p) == Len(p) <= Len(s) /\ SubSeq(s, 1, Len(p)) = p
EndsWith(s, p) == Len(p) <= Len(s) /\ SubSeq(s, Len(s) - Len(p) + 1, Len(s)) = p

\* p in s
Contains(s, p) ==
    \E i \in 1..(Len(s) - Len(p) + 1) : SubSeq(s, i, i + Len(p) - 1) = p

RECURSIVE SkipWs(_, _)
SkipWs(s, i) ==
    IF i <= Len(s) /\ Ch(s, i) \in Whitespace THEN SkipWs(s, i + 1) ELSE i

RECURSIVE SkipNonWs(_, _)
SkipNonWs(s, i) ==
    IF i <= Len(s) /\ Ch(s, i) \notin Whitespace THEN SkipNonWs(s, i + 1) ELSE i

RECURSIVE LastNonWs(_, _)
LastNonWs(s, i) ==
    IF i >= 1 /\ Ch(s, i) \in Whitespace THEN LastNonWs(s, i - 1) ELSE i

\* s.strip()
Strip(s) == SubSeq(s, SkipWs(s, 1), LastNonWs(s, Len(s)))

RECURSIVE FieldsFrom(_, _)
\* the whitespace-delimited tokens of s from position i on, each with the
\* whitespace before it
FieldsFrom(s, i) ==
    LET a == SkipWs(s, i)
        b == SkipNonWs(s, a)
    IN  IF a > Len(s) THEN <<>>
        ELSE <<[tok |-> SubSeq(s, a, b - 1), pre |-> SubSeq(s, i, a - 1)]>>
             \o FieldsFrom(s, b)

\* s.split()
Split(s) == LET F == FieldsFrom(s, 1) IN [k \in 1..Len(F) |-> F[k].tok]

RECURSIVE Join(_, _)
\* sep.join(parts)
Join(parts, sep) ==
    IF Len(parts) = 0 THEN ""
    ELSE IF Len(parts) = 1 THEN parts[1]
    ELSE parts[1] \o sep \o Join(Tail(parts), sep)

UpperCh(c) ==
    IF c \in LowerSet
    THEN Ch(UpperAlpha, CHOOSE i \in 1..26 : Ch(LowerAlpha, i) = c)
    ELSE c
LowerCh(c) ==
    IF c \in UpperSet
    THEN Ch(LowerAlpha, CHOOSE i \in 1..26 : Ch(UpperAlpha, i) = c)
    ELSE c

RECURSIVE LowerStr(_)
LowerStr(s) ==
    IF Len(s) = 0 THEN "" ELSE LowerCh(Ch(s, 1)) \o LowerStr(SubSeq(s, 2, Len(s)))

RECURSIVE TitleFrom(_, _)
TitleFrom(s, i) ==
    IF i > Len(s) THEN ""
    ELSE (IF i > 1 /\ Ch(s, i - 1) \in Letters
          THEN LowerCh(Ch(s, i)) ELSE UpperCh(Ch(s, i)))
         \o TitleFrom(s, i + 1)

\* s.title()
Title(s) == TitleFrom(s, 1)

\* s.capitalize()
Capitalize(s) ==
    IF Len(s) = 0 THEN "" ELSE UpperCh(Ch(s, 1)) \o LowerStr(SubSeq(s, 2, Len(s)))

RECURSIVE RStripChars(_, _)
\* s.rstrip(chars)
RStripChars(s, S) ==
    IF Len(s) >= 1 /\ Ch(s, Len(s)) \in S
    THEN RStripChars(SubSeq(s, 1, Len(s) - 1), S) ELSE s

-----------------------------------------------------------------------------
(* usamw_scraper.py: the fixed-grammar variant.                            *)

\* [A-Za-z]+ as a whole token
IsAlphaTok(t) == Len(t) >= 1 /\ AllIn(t, Letters)
\* [MW]\d+ as a whole token
IsCategoryTok(t) == Len(t) >= 2 /\ Ch(t, 1) \in {"M", "W"} /\ IsDigitStr(SubSeq(t, 2, Len(t)))
\* \d+\+? as a whole token
IsWeightTok(t) ==
    \/ IsDigitStr(t)
    \/ Len(t) >= 2 /\ Ch(t, Len(t)) = "+" /\ IsDigitStr(SubSeq(t, 1, Len(t) - 1))

RECURSIVE JoinFields(_, _, _)
\* the text from token a to token b of F, with the whitespace between them
JoinFields(F, a, b) ==
    IF a > b THEN ""
    ELSE F[a].tok \o (IF a < b THEN F[a + 1].pre ELSE "") \o JoinFields(F, a + 1, b)

\* re.match(r'^([MW]\d+)\s+(\d+\+?)\s+(\d+)\s+([A-Za-z\s]+?)\s+(\d+)\s+(.+)$', line)
\* on a stripped line: <<>> for None, or <<the six groups>>.  The lazy name group holds
\* letters and whitespace only, so the entry total is the first token after
\* the age that is not purely alphabetic, and it must be all digits and not
\* the last token; with no name token at all the name group still needs one
\* whitespace character of its own between the two \s+ (a gap of three).
MwMatch(line) ==
    LET F == FieldsFrom(line, 1)
        n == Len(F)
        NonAlpha == {k \in 4..n : ~IsAlphaTok(F[k].tok)}
        j == IF NonAlpha = {} THEN 0
             ELSE CHOOSE k \in NonAlpha : \A m \in NonAlpha : k <= m
    IN  IF /\ n >= 5
           /\ IsCategoryTok(F[1].tok)
           /\ IsWeightTok(F[2].tok)
           /\ IsDigitStr(F[3].tok)
           /\ j # 0
           /\ j < n
           /\ IsDigitStr(F[j].tok)
           /\ (j > 4 \/ Len(F[4].pre) >= 3)
        THEN << [category  |-> F[1].tok,
              weight    |-> F[2].tok,
              age       |-> F[3].tok,
              full_name |-> IF j > 4 THEN JoinFields(F, 4, j - 1)
                            ELSE SubSeq(F[4].pre, Len(F[4].pre) - 1, Len(F[4].pre) - 1),
              total     |-> F[j].tok,
              club      |-> JoinFields(F, j + 1, n)] >>
        ELSE <<>>

\* lines 57-84 of parse_start_list: the entry built from a match and its id
MwEntry(m, member_id) ==
    LET name_parts == Split(Strip(m.full_name))
    IN  [member_id        |-> member_id,
         name             |-> IF Len(name_parts) >= 2
                              THEN Title(Join(Tail(name_parts), " ")) \o " "
                                   \o Title(name_parts[1])
                              ELSE Title(m.full_name),
         age              |-> ToInt(m.age),
         club             |-> Strip(m.club),
         gender           |-> IF StartsWith(m.category, "W") THEN "Female" ELSE "Male",
         weight_class     |-> m.weight \o "kg",
         entry_total      |-> ToInt(m.total),
         session_number   |-> "",
         session_platform |-> "",
         meet             |-> "USAMW Master's Nationals"]

\* the lines a usamw text is made of
MwLines ==
    { "W35 81 40 DOE JANE 150 Iron Club",
      "W35 81+ 40 ROE ANN 160 Club",
      "W35 82 40 POE SUE 170 Club",
      "M40 81 45 MOE JIM 210 Club",
      "M35 5 150 OLD AL 100 Club",
      "USAMW Start List",
      "" }

-----------------------------------------------------------------------------
(* sorted() and list.sort(): a stable sort by key.                         *)

\* tuple comparison a < b of two keys of the same length
LexLess(a, b) ==
    \E i \in 1..Len(a) : a[i] < b[i] /\ \A j \in 1..(i - 1) : a[j] = b[j]

RECURSIVE StableSortPerm_Unstable(_, _)
\* a sort that puts an element before the elements with the same key
StableSortPerm_Unstable(keys, n) ==
    IF n = 0 THEN <<>>
    ELSE LET prev == StableSortPerm_Unstable(keys, n - 1)
             cnt  == Cardinality({q \in 1..Len(prev) : LexLess(keys[prev[q]], keys[n])})
         IN  SubSeq(prev, 1, cnt) \o <<n>> \o SubSeq(prev, cnt + 1, Len(prev))

RECURSIVE StableSortPerm(_, _)
\* the order in which a stable sort puts the first n elements, given their
\* keys: element n goes after every element whose key is not greater
StableSortPerm(keys, n) ==
    IF n = 0 THEN <<>>
    ELSE LET prev == StableSortPerm(keys, n - 1)
             cnt  == Cardinality({q \in 1..Len(prev) : ~LexLess(keys[n], keys[prev[q]])})
         IN  SubSeq(prev, 1, cnt) \o <<n>> \o SubSeq(prev, cnt + 1, Len(prev))

SortByKeys(seq, keys) ==
    LET p == StableSortPerm(keys, Len(seq)) IN [i \in 1..Len(seq) |-> seq[p[i]]]

-----------------------------------------------------------------------------
(* usamw save_to_csv                                                       *)

\* weight_class_to_number without the 0.5 of a '+' class
weight_class_to_number_NoHalf(weight_class) ==
    2 * ToInt(RStripChars(RStripChars(weight_class, {"k", "g"}), {"+"}))

\* weight_class_to_number, doubled so that base + 0.5 stays an integer
weight_class_to_number(weight_class) ==
    LET base == RStripChars(weight_class, {"k", "g"})
    IN  IF EndsWith(base, "+")
        THEN 2 * ToInt(RStripChars(base, {"+"})) + 1
        ELSE 2 * ToInt(base)

\* the key of sorted(data, key=lambda x: ...)
CsvKey(x) ==
    << IF x.gender # "Female" THEN 1 ELSE 0,
       0 - x.age,
       weight_class_to_number(x.weight_class) >>

CsvSort(d) == SortByKeys(d, [i \in 1..Len(d) |-> CsvKey(d[i])])

fieldnames ==
    << "member_id", "name", "age", "club", "gender", "weight_class",
       "entry_total", "session_number", "session_platform", "meet" >>

\* csv.DictWriter: the header row, then one row per record, its values in
\* the order of fieldnames
CsvRows(d) ==
    <<fieldnames>> \o [i \in 1..Len(d) |-> [k \in 1..Len(fieldnames) |-> d[i][fieldnames[k]]]]

-----------------------------------------------------------------------------
(* usamw parse_start_list and main, one action per step.                   *)

\* one line of the for loop, up to the identifier loop
MwLine(line) ==
    /\ variant = "usamw"
    /\ pc = "parse"
    /\ nread < MaxMwLines
    /\ nread' = nread + 1
    /\ LET m == MwMatch(Strip(line))
       IN  IF Strip(line) = "" \/ m = <<>>
           THEN UNCHANGED <<pc, cur>>
           ELSE pc' = "draw" /\ cur' = m
    /\ UNCHANGED <<variant, text, entries, skipped, used_member_ids,
                   start_processing, data, filtered_data, emitted,
                   current_session_number, current_platform, out, sorted_data>>

\* MwDraw without the membership test of line 53
MwDraw_NoMembershipTest(member_id) ==
    /\ variant = "usamw"
    /\ pc = "draw"
    /\ used_member_ids' = used_member_ids \cup {member_id}
    /\ entries' = Append(entries, MwEntry(cur[1], member_id))
    /\ cur' = <<>>
    /\ pc' = "parse"
    /\ UNCHANGED <<variant, text, nread, skipped, start_processing, data,
                   filtered_data, emitted, current_session_number,
                   current_platform, out, sorted_data>>

\* one turn of the while True loop: a draw that collides is drawn again
MwDraw(member_id) ==
    /\ variant = "usamw"
    /\ pc = "draw"
    /\ IF member_id \notin used_member_ids
       THEN /\ used_member_ids' = used_member_ids \cup {member_id}
            /\ entries' = Append(entries, MwEntry(cur[1], member_id))
            /\ cur' = <<>>
            /\ pc' = "parse"
       ELSE UNCHANGED <<used_member_ids, entries, cur, pc>>
    /\ UNCHANGED <<variant, text, nread, skipped, start_processing, data,
                   filtered_data, emitted, current_session_number,
                   current_platform, out, sorted_data>>

\* the end of the text: return entries
MwReturn ==
    /\ variant = "usamw"
    /\ pc = "parse"
    /\ pc' = "parsed"
    /\ data' = entries
    /\ UNCHANGED <<variant, text, nread, entries, skipped, used_member_ids, cur,
                   start_processing, filtered_data, emitted,
                   current_session_number, current_platform, out, sorted_data>>

\* main: save_to_csv(parsed_data, output_path)
MwSaveCsv ==
    /\ variant = "usamw"
    /\ pc = "parsed"
    /\ sorted_data' = CsvSort(data)
    /\ out' = CsvRows(CsvSort(data))
    /\ pc' = "done"
    /\ UNCHANGED <<variant, text, nread, entries, skipped, used_member_ids, cur,
                   start_processing, data, filtered_data, emitted,
                   current_session_number, current_platform>>

MwNext ==
    \/ \E line \in MwLines : MwLine(line)
    \/ \E member_id \in IdLo..IdHi : MwDraw(member_id)
    \/ MwReturn
    \/ MwSaveCsv

-----------------------------------------------------------------------------
(* pdf_scraper.py: the tabular-anchor variant.                             *)

MinOf(S) == CHOOSE k \in S : \A m \in S : k <= m

RECURSIVE SkipDigits(_, _)
SkipDigits(s, i) ==
    IF i <= Len(s) /\ Ch(s, i) \in Digits THEN SkipDigits(s, i + 1) ELSE i

RECURSIVE SkipLetters(_, _)
SkipLetters(s, i) ==
    IF i <= Len(s) /\ Ch(s, i) \in Letters THEN SkipLetters(s, i + 1) ELSE i

RECURSIVE SplitOn(_, _)
\* s.split(sep) for a one-character sep
SplitOn(s, sep) ==
    LET hits == {i \in 1..Len(s) : Ch(s, i) = sep}
    IN  IF hits = {} THEN <<s>>
        ELSE <<SubSeq(s, 1, MinOf(hits) - 1)>>
             \o SplitOn(SubSeq(s, MinOf(hits) + 1, Len(s)), sep)

RECURSIVE CollapseWs(_)
\* re.sub(r'\s+', ' ', s)
CollapseWs(s) ==
    IF Len(s) = 0 THEN ""
    ELSE IF Ch(s, 1) \in Whitespace
         THEN " " \o CollapseWs(SubSeq(s, SkipWs(s, 1), Len(s)))
         ELSE Ch(s, 1) \o CollapseWs(SubSeq(s, 2, Len(s)))

clean_categories(categories) ==
    LET parts == SplitOn(Strip(CollapseWs(categories)), "/")
    IN  Join([k \in 1..Len(parts) |-> Strip(parts[k])], " / ")

PdfHeader ==
    "Lot First Name Last Name State Age Club Name Gender CATEGORIES Group Entry Total Session Platform Day Lifting Time"
PdfPresentedBy == "Start List presented by:"

\* re.search(r'\s([A-Z]{2})\s', s): the start of the first match, or 0
StateSearch(s) ==
    LET hits == {i \in 1..(Len(s) - 3) :
                    /\ Ch(s, i) \in Whitespace
                    /\ Ch(s, i + 1) \in UpperSet
                    /\ Ch(s, i + 2) \in UpperSet
                    /\ Ch(s, i + 3) \in Whitespace}
    IN  IF hits = {} THEN 0 ELSE MinOf(hits)

\* re.search(r'\s([MW])\s', s): the start of the first match, or 0
GenderSearch(s) ==
    LET hits == {i \in 1..(Len(s) - 2) :
                    /\ Ch(s, i) \in Whitespace
                    /\ Ch(s, i + 1) \in {"M", "W"}
                    /\ Ch(s, i + 2) \in Whitespace}
    IN  IF hits = {} THEN 0 ELSE MinOf(hits)

\* re.search(r'/\s+([A-Z])\s+', s): <<start, position of the letter, end>> of
\* the first match, or <<>>
GroupSearch(s) ==
    LET Letter(i) == SkipWs(s, i + 1)
        End(i) == SkipWs(s, Letter(i) + 1)
        hits == {i \in 1..Len(s) :
                    /\ Ch(s, i) = "/"
                    /\ Letter(i) > i + 1
                    /\ Letter(i) <= Len(s)
                    /\ Ch(s, Letter(i)) \in UpperSet
                    /\ End(i) > Letter(i) + 1}
    IN  IF hits = {} THEN <<>>
        ELSE <<MinOf(hits), Letter(MinOf(hits)), End(MinOf(hits)) - 1>>

\* lines 119-127: the combined session+platform token, by
\* re.match(r'(\d+)([A-Za-z]+)', session_platform)
SessionPlatform(session_platform) ==
    LET d == SkipDigits(session_platform, 1)
        e == SkipLetters(session_platform, d)
    IN  IF d > 1 /\ e > d
        THEN [session  |-> SubSeq(session_platform, 1, d - 1),
              platform |-> Capitalize(SubSeq(session_platform, d, e - 1))]
        ELSE [session |-> session_platform, platform |-> ""]

\* lines 62-149 of parse_start_list on one stripped line of the data
\* region: <<>> when an anchor fails, else <<entry>>
PdfParseLine(line) ==
    LET lot_end          == SkipDigits(line, 1)
        lot_number       == SubSeq(line, 1, lot_end - 1)
        rest_of_line     == Strip(SubSeq(line, lot_end, Len(line)))
        state_index      == StateSearch(rest_of_line)
        rest_after_state == Strip(SubSeq(rest_of_line, state_index + 4, Len(rest_of_line)))
        age_end          == IF SkipDigits(rest_after_state, 1) > 3 THEN 3
                            ELSE SkipDigits(rest_after_state, 1)
        age              == SubSeq(rest_after_state, 1, age_end - 1)
        rest_after_age   == Strip(SubSeq(rest_after_state, age_end, Len(rest_after_state)))
        gender_index     == GenderSearch(rest_after_age)
        rest_after_gender == Strip(SubSeq(rest_after_age, gender_index + 3, Len(rest_after_age)))
        group_match      == GroupSearch(rest_after_gender)
        rest_after_group == Strip(SubSeq(rest_after_gender, group_match[3] + 1,
                                         Len(rest_after_gender)))
        parts            == Split(rest_after_group)
        sp               == SessionPlatform(parts[2])
    IN  IF lot_end = 1 THEN <<>>
        ELSE IF state_index = 0 THEN <<>>
        ELSE IF age_end = 1 THEN <<>>
        ELSE IF gender_index = 0 THEN <<>>
        ELSE IF group_match = <<>> THEN <<>>
        ELSE IF Len(parts) < 5 THEN <<>>
        ELSE << [lot_number |-> lot_number,
                 name       |-> Strip(SubSeq(rest_of_line, 1, state_index - 1)),
                 state      |-> SubSeq(rest_of_line, state_index + 1, state_index + 2),
                 age        |-> age,
                 club       |-> Strip(SubSeq(rest_after_age, 1, gender_index - 1)),
                 gender     |-> Ch(rest_after_age, gender_index + 1),
                 categories |-> clean_categories(
                                    Strip(SubSeq(rest_after_gender, 1, group_match[1] - 1))),
                 group      |-> Ch(rest_after_gender, group_match[2]),
                 entryTotal |-> parts[1],
                 session    |-> sp.session,
                 platform   |-> sp.platform,
                 day        |-> parts[3],
                 time       |-> Join(SubSeq(parts, 4, Len(parts)), " ")] >>

\* extract_weight_class: every match of ([MW])\s+(\d+), in order
extract_weight_class(categories) ==
    LET Num(i) == SkipWs(categories, i + 1)
        hits == {i \in 1..Len(categories) :
                    /\ Ch(categories, i) \in {"M", "W"}
                    /\ Num(i) > i + 1
                    /\ SkipDigits(categories, Num(i)) > Num(i)}
        Tag(i) == Ch(categories, i)
                  \o SubSeq(categories, Num(i), SkipDigits(categories, Num(i)) - 1)
        RECURSIVE Tags(_)
        Tags(H) == IF H = {} THEN <<>> ELSE <<Tag(MinOf(H))>> \o Tags(H \ {MinOf(H)})
    IN  Tags(hits)

AgeGroupPatterns ==
    << "U13", "14-15", "16-17", "JUNIOR", "OPEN", "35", "40", "45", "50", "55",
       "60", "65", "70", "UNI" >>

\* extract_age_group: the patterns found in categories, in the table's order
extract_age_group(categories) ==
    LET RECURSIVE Found(_)
        Found(k) ==
            IF k > Len(AgeGroupPatterns) THEN <<>>
            ELSE (IF Contains(categories, AgeGroupPatterns[k])
                  THEN <<AgeGroupPatterns[k]>> ELSE <<>>) \o Found(k + 1)
    IN  Found(1)

\* enrich_data: a copy of every entry with the derived lists (an empty list
\* stands for a key that is not added)
enrich_data(es) ==
    [i \in 1..Len(es) |->
        [lot_number |-> es[i].lot_number, name |-> es[i].name, state |-> es[i].state,
         age |-> es[i].age, club |-> es[i].club, gender |-> es[i].gender,
         categories |-> es[i].categories, group |-> es[i].group,
         entryTotal |-> es[i].entryTotal, session |-> es[i].session,
         platform |-> es[i].platform, day |-> es[i].day, time |-> es[i].time,
         weight_classes |-> extract_weight_class(es[i].categories),
         age_groups     |-> extract_age_group(es[i].categories)]]

\* lines 249-254: a numeric field becomes an int when it is a digit string
NumericField(v) == IF IsDigitStr(v) THEN PyInt(ToInt(v)) ELSE PyStr(v)

\* lines 222-254: one entry without the excluded fields, categories renamed,
\* the nested session object added, the numeric fields converted
FilterEntry(entry) ==
    [name        |-> entry.name,
     age         |-> NumericField(entry.age),
     club        |-> entry.club,
     group       |-> entry.group,
     entryTotal  |-> NumericField(entry.entryTotal),
     weightClass |-> entry.categories,
     session     |-> [number   |-> IF IsDigitStr(entry.session)
                                   THEN PyInt(ToInt(entry.session))
                                   ELSE PyStr(entry.session),
                      platform |-> entry.platform]]

\* lines 256-267: session_int
session_int(entry) ==
    IF entry.session.number.t = "int" THEN entry.session.number.v ELSE 0

\* platform_order with a low default for the platforms outside the table
platform_order_LowDefault(platform) ==
    CASE platform = "Red"     -> 1
      [] platform = "White"   -> 2
      [] platform = "Blue"    -> 3
      [] platform = "Stars"   -> 4
      [] platform = "Stripes" -> 5
      [] platform = "Rogue"   -> 6
      [] OTHER                -> 0

\* lines 270-285: platform_order.get(platform, 999)
platform_order(platform) ==
    CASE platform = "Red"     -> 1
      [] platform = "White"   -> 2
      [] platform = "Blue"    -> 3
      [] platform = "Stars"   -> 4
      [] platform = "Stripes" -> 5
      [] platform = "Rogue"   -> 6
      [] OTHER                -> 999

\* the order of the group letters as strings (group is one letter of [A-Z])
GroupOrd(group) == CHOOSE i \in 1..26 : Ch(UpperAlpha, i) = group

\* lines 288-292: the key of filtered_data.sort
JsonKey(entry) ==
    << session_int(entry), platform_order(entry.session.platform), GroupOrd(entry.group) >>

JsonSort(d) == SortByKeys(d, [i \in 1..Len(d) |-> JsonKey(d[i])])

\* GroupBoundary that looks at the platform only
GroupBoundary_PlatformOnly(session_number, platform) ==
    /\ current_platform # PyNone
    /\ PyStr(platform) # current_platform

\* lines 316-319: whether a blank line goes before an entry
GroupBoundary(session_number, platform) ==
    /\ current_platform # PyNone
    /\ \/ session_number = current_session_number /\ PyStr(platform) # current_platform
       \/ session_number # current_session_number

\* a data line of the tabular layout
PdfDataLine(name, age, group, total, sp) ==
    "101 " \o name \o " NY " \o age \o " Iron Club M OPEN 81 / " \o group \o " "
    \o total \o " " \o sp \o " Sat 9:00 AM"

\* the lines a pdf text is made of
PdfLines ==
    { PdfHeader,
      "Start List presented by: owlcms",
      "",
      "Page 2 of 7",
      "102 Jane Roe 45 Iron Club W OPEN 64 / A 150 1RED Sat 9:00 AM",
      "103 Jim Poe NY 45 Iron Club M OPEN 81 / A 200 1RED Sat 9:00",
      PdfDataLine("John Doe", "45", "A", "200", "1RED"),
      PdfDataLine("Al Moe", "30", "A", "150", "1RED"),
      PdfDataLine("John Doe", "45", "B", "200", "1RED"),
      PdfDataLine("John Doe", "45", "A", "200", "1WHITE"),
      PdfDataLine("John Doe", "45", "A", "200", "1BLUE"),
      PdfDataLine("John Doe", "45", "A", "200", "1STARS"),
      PdfDataLine("John Doe", "45", "A", "200", "1STRIPES"),
      PdfDataLine("John Doe", "45", "A", "200", "1ROGUE"),
      PdfDataLine("John Doe", "45", "A", "200", "1GOLD"),
      PdfDataLine("John Doe", "45", "A", "200", "2RED"),
      PdfDataLine("John Doe", "45", "A", "200", "12"),
      PdfDataLine("John Doe", "45", "A", "200", "RED"),
      PdfDataLine("Old Doe", "0", "A", "20x", "2WHITE"),
      PdfDataLine("Al Moe", "30", "A", "150", "1RED") \o " Start List presented by: owlcms" }

\* PdfLine that parses the lines before the header too
PdfLine_NoGate(line) ==
    /\ variant = "pdf"
    /\ pc = "parse"
    /\ nread < MaxLines
    /\ nread' = nread + 1
    /\ LET l == Strip(line)
       IN  IF l = "" THEN UNCHANGED <<start_processing, entries>>
           ELSE IF Contains(l, PdfHeader)
           THEN start_processing' = TRUE /\ UNCHANGED entries
           ELSE IF Contains(l, PdfPresentedBy) THEN UNCHANGED <<start_processing, entries>>
           ELSE /\ entries' = entries \o PdfParseLine(l)
                /\ UNCHANGED start_processing
    /\ cur' = <<Strip(line)>>
    /\ UNCHANGED <<variant, pc, text, skipped, used_member_ids, data,
                   filtered_data, emitted, current_session_number,
                   current_platform, out, sorted_data>>

\* one line of the for loop of parse_start_list
PdfLine(line) ==
    /\ variant = "pdf"
    /\ pc = "parse"
    /\ nread < MaxLines
    /\ nread' = nread + 1
    /\ LET l == Strip(line)
       IN  IF l = "" THEN UNCHANGED <<start_processing, entries>>
           ELSE IF Contains(l, PdfHeader)
           THEN start_processing' = TRUE /\ UNCHANGED entries
           ELSE IF Contains(l, PdfPresentedBy) THEN UNCHANGED <<start_processing, entries>>
           ELSE IF ~start_processing THEN UNCHANGED <<start_processing, entries>>
           ELSE /\ entries' = entries \o PdfParseLine(l)
                /\ UNCHANGED start_processing
    /\ cur' = <<Strip(line)>>
    /\ UNCHANGED <<variant, pc, text, skipped, used_member_ids, data,
                   filtered_data, emitted, current_session_number,
                   current_platform, out, sorted_data>>

\* the end of the text: return entries; main: enrich_data(parsed_data)
PdfReturn ==
    /\ variant = "pdf"
    /\ pc = "parse"
    /\ pc' = "parsed"
    /\ data' = enrich_data(entries)
    /\ cur' = <<>>
    /\ UNCHANGED <<variant, text, nread, entries, skipped, used_member_ids,
                   start_processing, filtered_data, emitted,
                   current_session_number, current_platform, out, sorted_data>>

\* save_to_json up to the for loop that writes the entries (lines 216-307)
PdfSave ==
    /\ variant = "pdf"
    /\ pc = "parsed"
    /\ filtered_data' = JsonSort([i \in 1..Len(data) |-> FilterEntry(data[i])])
    /\ out' = <<[kind |-> "open"]>>
    /\ emitted' = 0
    /\ current_session_number' = PyNone
    /\ current_platform' = PyNone
    /\ pc' = "emit"
    /\ UNCHANGED <<variant, text, nread, entries, skipped, used_member_ids, cur,
                   start_processing, data, sorted_data>>

\* one turn of the for loop of save_to_json (lines 309-349)
PdfEmit ==
    /\ variant = "pdf"
    /\ pc = "emit"
    /\ emitted < Len(filtered_data)
    /\ LET entry == filtered_data[emitted + 1]
           session_number == entry.session.number
           platform == entry.session.platform
       IN  /\ out' = out
                     \o (IF GroupBoundary(session_number, platform)
                         THEN <<[kind |-> "blank"]>> ELSE <<>>)
                     \o <<[kind  |-> "entry",
                           entry |-> entry,
                           comma |-> emitted + 1 < Len(filtered_data)]>>
           /\ current_session_number' = session_number
           /\ current_platform' = PyStr(platform)
    /\ emitted' = emitted + 1
    /\ UNCHANGED <<variant, pc, text, nread, entries, skipped, used_member_ids, cur,
                   start_processing, data, filtered_data, sorted_data>>

\* after the loop: the closing bracket (line 351)
PdfClose ==
    /\ variant = "pdf"
    /\ pc = "emit"
    /\ emitted = Len(filtered_data)
    /\ out' = Append(out, [kind |-> "close"])
    /\ pc' = "done"
    /\ UNCHANGED <<variant, text, nread, entries, skipped, used_member_ids, cur,
                   start_processing, data, filtered_data, emitted,
                   current_session_number, current_platform, sorted_data>>

PdfNext ==
    \/ \E line \in PdfLines : PdfLine(line)
    \/ PdfReturn
    \/ PdfSave
    \/ PdfEmit
    \/ PdfClose

-----------------------------------------------------------------------------
(* usaw_other_scraper.py: the heterogeneous variant.                       *)

OtherHeader == "Session Date Gndr Group Cat Lot Age Name Total Team Comps"

\* lines 38-41: the index of the first line to process
HeaderScan(lines) ==
    LET hits == {i \in 1..Len(lines) : Contains(lines[i], OtherHeader)}
    IN  IF hits = {} THEN 0 ELSE MinOf(hits)

\* lines 49-63: the stripped lines that are dropped as headers, dates,
\* platform lines and bare weight classes
IsNoiseLine(line) ==
    \/ \E x \in {"Weigh In", "Start", "2025 USAW", "owlcms", "Session Date", "Page"} :
          Contains(line, x)
    \/ \E x \in {"Thu", "Fri", "Sat", "Sun", "Apr"} : StartsWith(line, x)
    \/ \E x \in {"RED F", "RED M", "BLUE F", "BLUE M", "WHITE F", "WHITE M"} :
          Contains(line, x)
    \/ IsCategoryTok(line)

\* format_name
format_name(name) ==
    IF Contains(name, ",")
    THEN LET c == MinOf({i \in 1..Len(name) : Ch(name, i) = ","})
         IN  Title(Strip(SubSeq(name, c + 1, Len(name)))) \o " "
             \o Title(Strip(SubSeq(name, 1, c - 1)))
    ELSE Title(Strip(name))

\* part.isdigit() or (part.endswith('+') and part[:-1].isdigit())
IsBareWeight(part) ==
    \/ IsDigitStr(part)
    \/ EndsWith(part, "+") /\ IsDigitStr(SubSeq(part, 1, Len(part) - 1))

\* part.isdigit() and lo <= int(part) <= hi
IsNumberIn(part, lo, hi) == IsDigitStr(part) /\ lo <= ToInt(part) /\ ToInt(part) <= hi

RECURSIVE KeepDigitsPlus(_)
\* ''.join(c for c in s if c.isdigit() or c == '+')
KeepDigitsPlus(s) ==
    IF Len(s) = 0 THEN ""
    ELSE (IF Ch(s, 1) \in Digits \cup {"+"} THEN Ch(s, 1) ELSE "")
         \o KeepDigitsPlus(SubSeq(s, 2, Len(s)))

AgeLo == 1
AgeHi == 99
TotalLo == 30
TotalHi == 400

\* the first element of a set of token positions, 0 when there is none
First(S) == IF S = {} THEN 0 ELSE MinOf(S)

RECURSIVE PickTokens(_, _)
\* the tokens at the positions S, in order
PickTokens(parts, S) ==
    IF S = {} THEN <<>> ELSE <<parts[MinOf(S)]>> \o PickTokens(parts, S \ {MinOf(S)})

(* Token positions are 1-based: token k is parts[k-1] of the code, and 0    *)
(* stands for "not found".                                                 *)

\* lines 73-79: the number of prefix tokens before the identifier search
OtherPrefix(parts) ==
    IF parts[1] = "GA"
    THEN (IF Len(parts) > 1 /\ StartsWith(parts[2], "U") THEN 2 ELSE 1)
    ELSE IF StartsWith(parts[1], "W") \/ StartsWith(parts[1], "M") \/ parts[1] = "ADAP"
    THEN 1 ELSE 0

\* lines 82-86: the weight class is the first token
OtherLeadWeight(parts) == OtherPrefix(parts) = 0 /\ IsBareWeight(parts[1])

\* lines 89-94: the first purely numeric token after the prefix
OtherIdPos(parts) ==
    LET start_idx == IF OtherLeadWeight(parts) THEN 1 ELSE OtherPrefix(parts)
    IN  First({k \in (start_idx + 1)..Len(parts) : IsDigitStr(parts[k])})

\* lines 103-107: the first token with a comma after the identifier
OtherNamePos(parts, id_pos) ==
    First({k \in (id_pos + 1)..Len(parts) : Contains(parts[k], ",")})

\* lines 114-118: next_idx, the tokens from the first one after the name
\* that holds a digit
OtherAfterName(parts, name_pos) ==
    LET next_pos == First({k \in (name_pos + 1)..Len(parts) : AnyIn(parts[k], Digits)})
    IN  IF next_pos = 0 THEN {} ELSE next_pos..Len(parts)

\* lines 124-135: the age, before the name and else after it
OtherAgePos(parts, name_pos, after) ==
    LET before == First({k \in (IF name_pos > 2 THEN name_pos - 2 ELSE 1)..(name_pos - 1) :
                            IsNumberIn(parts[k], AgeLo, AgeHi)})
    IN  IF before # 0 THEN before
        ELSE First({k \in after : IsNumberIn(parts[k], AgeLo, AgeHi)})

\* lines 143-147: the entry total
OtherTotalPos(parts, after) ==
    First({k \in after : IsNumberIn(parts[k], TotalLo, TotalHi)})

\* lines 156-162: the first W/M token with a digit, unless the weight class
\* was the first token
OtherCatPos(parts) ==
    IF OtherLeadWeight(parts) THEN 0
    ELSE First({k \in 1..Len(parts) :
                   /\ StartsWith(parts[k], "W") \/ StartsWith(parts[k], "M")
                   /\ AnyIn(parts[k], Digits)})

\* lines 82-86, 156-170: the token the weight class is read from
OtherWeightPos(parts) ==
    IF OtherLeadWeight(parts) THEN 1
    ELSE IF OtherCatPos(parts) # 0 THEN OtherCatPos(parts)
    ELSE First({k \in 1..(IF Len(parts) < 3 THEN Len(parts) ELSE 3) : IsBareWeight(parts[k])})

\* lines 84, 159-160, 168
OtherWeightClass(parts, weight_pos) ==
    IF ~OtherLeadWeight(parts) /\ OtherCatPos(parts) # 0
    THEN KeepDigitsPlus(SubSeq(parts[weight_pos], 2, Len(parts[weight_pos]))) \o "kg"
    ELSE parts[weight_pos] \o "kg"

\* OtherGender without the fallback on MILMW and the titles
OtherGender_NoTitles(line, parts) ==
    IF OtherCatPos(parts) # 0
    THEN (IF StartsWith(parts[OtherCatPos(parts)], "W") THEN "Female" ELSE "Male")
    ELSE "Male"

\* lines 158, 177-183
OtherGender(line, parts) ==
    IF OtherCatPos(parts) # 0
    THEN (IF StartsWith(parts[OtherCatPos(parts)], "W") THEN "Female" ELSE "Male")
    ELSE IF \/ \E k \in 1..Len(parts) : parts[k] = "MILMW"
            \/ \E x \in {", Ms", ", Mrs", "MISS"} : Contains(line, x)
    THEN "Female" ELSE "Male"

\* lines 186-199: the tokens after the first entry-total token, without the
\* tokens in the total's range, up to the first category marker
OtherClub(parts, after, total_pos) ==
    LET stop_pos == First({k \in after :
                              /\ k > total_pos
                              /\ ~IsNumberIn(parts[k], TotalLo, TotalHi)
                              /\ \/ parts[k] \in {"GA", "ADAP", "MILMM", "MILMW"}
                                 \/ StartsWith(parts[k], "U")})
        club_pos == {k \in after :
                        /\ k > total_pos
                        /\ ~IsNumberIn(parts[k], TotalLo, TotalHi)
                        /\ (stop_pos = 0 \/ k < stop_pos)}
        club == Strip(Join(PickTokens(parts, club_pos), " "))
    IN  IF club = "" THEN "Unaffiliated" ELSE club

\* lines 114-119: the name span
OtherName(parts, name_pos, after) ==
    format_name(Join(SubSeq(parts, name_pos,
                            IF after = {} THEN Len(parts) ELSE MinOf(after) - 1), " "))

\* the positions of the tokens the fields are read from
OtherPositions(parts) ==
    LET id_pos == OtherIdPos(parts)
        name_pos == IF id_pos = 0 THEN 0 ELSE OtherNamePos(parts, id_pos)
        after == IF name_pos = 0 THEN {} ELSE OtherAfterName(parts, name_pos)
    IN  [id_pos     |-> id_pos,
         name_pos   |-> name_pos,
         after      |-> after,
         age_pos    |-> IF name_pos = 0 THEN 0 ELSE OtherAgePos(parts, name_pos, after),
         total_pos  |-> OtherTotalPos(parts, after),
         weight_pos |-> OtherWeightPos(parts)]

\* lines 70-206: the entry of a line whose fields were all found
OtherEntry(line, parts, p) ==
    [member_id        |-> ToInt(parts[p.id_pos]),
     name             |-> OtherName(parts, p.name_pos, p.after),
     age              |-> ToInt(parts[p.age_pos]),
     club             |-> OtherClub(parts, p.after, p.total_pos),
     gender           |-> OtherGender(line, parts),
     weight_class     |-> OtherWeightClass(parts, p.weight_pos),
     entry_total      |-> ToInt(parts[p.total_pos]),
     session_number   |-> "",
     session_platform |-> "",
     meet             |-> "USAW Master's Nationals"]

\* the outcome of lines 65-206, given the positions found
OtherOutcome(line, parts, p) ==
    IF p.id_pos = 0
    THEN [kind |-> "skipped", reason |-> "Skipped (no valid ID): " \o line]
    ELSE IF p.name_pos = 0
    THEN [kind |-> "skipped", reason |-> "Skipped (no comma in name): " \o line]
    ELSE IF p.age_pos = 0
    THEN [kind |-> "skipped", reason |-> "Skipped (no age found): " \o line]
    ELSE IF p.total_pos = 0
    THEN [kind |-> "skipped", reason |-> "Skipped (no total found): " \o line]
    ELSE IF p.weight_pos = 0
    THEN [kind |-> "skipped", reason |-> "Skipped (no weight class found): " \o line]
    ELSE [kind |-> "entry", entry |-> OtherEntry(line, parts, p), pos |-> p]

\* lines 65-206 on one stripped line that passed the filters: [kind |->
\* "short"] (fewer than four tokens: nothing is recorded), [kind |->
\* "skipped", reason] or [kind |-> "entry", entry, pos]
OtherParseLine(line) ==
    IF Len(Split(line)) < 4 THEN [kind |-> "short"]
    ELSE OtherOutcome(line, Split(line), OtherPositions(Split(line)))

\* the lines a text of the heterogeneous variant is made of
OtherLines ==
    { OtherHeader,
      "Page 3",
      "W65 123 45 Doe, Jane 150 Iron Club GA",
      "M81+ 124 50 Roe, John 200 Club",
      "GA 123 45 Poe, Ann 150 Club",
      "81 200 45 Moe, Ms Sue 120 Club",
      "GA 12345 45 Zed, Al 150 Club MILMW",
      "W65 123 Doe, Jane 45 Club",
      "GA 123 Doe,",
      "GA Doe, Jane Club",
      "W65 123 45 Doe Jane 150",
      "W65 123 Doe, Jane 150 Club",
      "W65 123 45 Doe, Jane Club",
      "GA U15 X 123 45 Doe, 150" }

OtherTexts == UNION {[1..n -> OtherLines] : n \in 0..MaxOtherLines}

\* lines 36-41: lines = text.split('\n') and the search for the header
OtherScan ==
    /\ variant = "other"
    /\ pc = "scan"
    /\ nread' = HeaderScan(text)
    /\ pc' = "parse"
    /\ UNCHANGED <<variant, text, entries, skipped, used_member_ids, cur,
                   start_processing, data, filtered_data, emitted,
                   current_session_number, current_platform, out, sorted_data>>

\* one line of the for loop of parse_start_list (lines 44-210)
OtherLine ==
    /\ variant = "other"
    /\ pc = "parse"
    /\ nread < Len(text)
    /\ nread' = nread + 1
    /\ LET line == Strip(text[nread + 1])
           r == OtherParseLine(line)
       IN  IF line = "" \/ IsNoiseLine(line) \/ r.kind = "short"
           THEN UNCHANGED <<entries, skipped>>
           ELSE IF r.kind = "skipped"
           THEN skipped' = Append(skipped, r.reason) /\ UNCHANGED entries
           ELSE entries' = Append(entries, r.entry) /\ UNCHANGED skipped
    /\ UNCHANGED <<variant, pc, text, used_member_ids, cur, start_processing,
                   data, filtered_data, emitted, current_session_number,
                   current_platform, out, sorted_data>>

\* the end of the text: return entries
OtherReturn ==
    /\ variant = "other"
    /\ pc = "parse"
    /\ nread = Len(text)
    /\ pc' = "parsed"
    /\ data' = entries
    /\ UNCHANGED <<variant, text, nread, entries, skipped, used_member_ids, cur,
                   start_processing, filtered_data, emitted,
                   current_session_number, current_platform, out, sorted_data>>

\* main, lines 263-265: nothing parsed
OtherNoEntries ==
    /\ variant = "other"
    /\ pc = "parsed"
    /\ data = <<>>
    /\ pc' = "error"
    /\ UNCHANGED <<variant, text, nread, entries, skipped, used_member_ids, cur,
                   start_processing, data, filtered_data, emitted,
                   current_session_number, current_platform, out, sorted_data>>

\* main, line 268: save_to_csv(parsed_data, output_path), rows in parse order
OtherSaveCsv ==
    /\ variant = "other"
    /\ pc = "parsed"
    /\ data # <<>>
    /\ out' = CsvRows(data)
    /\ pc' = "done"
    /\ UNCHANGED <<variant, text, nread, entries, skipped, used_member_ids, cur,
                   start_processing, data, filtered_data, emitted,
                   current_session_number, current_platform, sorted_data>>

OtherNext ==
    \/ OtherScan
    \/ OtherLine
    \/ OtherReturn
    \/ OtherNoEntries
    \/ OtherSaveCsv

-----------------------------------------------------------------------------

Init ==
    /\ variant \in {"usamw", "other", "pdf"}
    /\ pc = IF variant = "other" THEN "scan" ELSE "parse"
    /\ text \in IF variant = "other" THEN OtherTexts ELSE {<<>>}
    /\ nread = 0
    /\ entries = <<>>
    /\ skipped = <<>>
    /\ used_member_ids = {}
    /\ cur = <<>>
    /\ start_processing = FALSE
    /\ data = <<>>
    /\ filtered_data = <<>>
    /\ emitted = 0
    /\ current_session_number = PyNone
    /\ current_platform = PyNone
    /\ out = <<>>
    /\ sorted_data = <<>>

Next == MwNext \/ OtherNext \/ PdfNext

Spec == Init /\ [][Next]_vars

\* one script at a time
InitMw == Init /\ variant = "usamw"
SpecMw == InitMw /\ [][MwNext]_vars

InitOther == Init /\ variant = "other"
SpecOther == InitOther /\ [][OtherNext]_vars

InitPdf == Init /\ variant = "pdf"
SpecPdf == InitPdf /\ [][PdfNext]_vars

\* the two scripts that sort their records
InitSort == Init /\ variant \in {"usamw", "pdf"}
SpecSort == InitSort /\ [][MwNext \/ PdfNext]_vars

-----------------------------------------------------------------------------
(* Properties.                                                             *)

MemberIds(es) == {es[i].member_id : i \in 1..Len(es)}

\* C1: in a usamw run the member_id values of the entries produced so far
\* are pairwise distinct, they are exactly the identifiers recorded in
\* used_member_ids, and they lie in the range the draw is made from.
C1_MemberIdsDistinct ==
    variant = "usamw" =>
        /\ \A i, j \in 1..Len(entries) :
              i # j => entries[i].member_id # entries[j].member_id
        /\ MemberIds(entries) = used_member_ids
        /\ used_member_ids \subseteq IdLo..IdHi

\* every identifier of the range has been given to an entry
C1_Witness ==
    /\ variant = "usamw"
    /\ Len(entries) = IdSpan + 1
    /\ pc = "parse"

\* C2: whenever a usamw run is in the identifier loop for a matching line,
\* the range still holds a free identifier, so that the loop can end and
\* the run can go on to the next line.
C2_DrawLoopCanEnd ==
    (variant = "usamw" /\ pc = "draw") =>
        \E member_id \in IdLo..IdHi : member_id \notin used_member_ids

\* C3: the member_id values of the entries of a run of the heterogeneous
\* variant are pairwise distinct.
C3_OtherMemberIdsDistinct ==
    variant = "other" =>
        \A i, j \in 1..Len(entries) :
            i # j => entries[i].member_id # entries[j].member_id

-----------------------------------------------------------------------------
(* The list order of save_to_json, as the claims state it.                 *)

PlatformTable == << "Red", "White", "Blue", "Stars", "Stripes", "Rogue" >>

\* the rank of a platform name: its place in the table, and after all of
\* them for every other name
PlatformRank(platform) ==
    IF \E k \in 1..Len(PlatformTable) : PlatformTable[k] = platform
    THEN CHOOSE k \in 1..Len(PlatformTable) : PlatformTable[k] = platform
    ELSE Len(PlatformTable) + 1

\* the session number of a written record; a session token without a
\* number counts as session 0
SessionNumber(e) == IF e.session.number.t = "int" THEN e.session.number.v ELSE 0

ListKey(e) == << SessionNumber(e), PlatformRank(e.session.platform), GroupOrd(e.group) >>

\* the records save_to_json wrote, in the order of the file
Written == LET es == SelectSeq(out, LAMBDA o : o.kind = "entry")
           IN  [k \in 1..Len(es) |-> es[k].entry]

\* the records save_to_json was given, as it writes them
Given == [i \in 1..Len(data) |-> FilterEntry(data[i])]

Count(seq, x) == Cardinality({i \in 1..Len(seq) : seq[i] = x})

IsPermutation(a, b) ==
    /\ Len(a) = Len(b)
    /\ \A i \in 1..Len(a) : Count(a, a[i]) = Count(b, a[i])

\* C4: the records save_to_json writes are a permutation of the records it
\* was given, and every adjacent pair is non-decreasing in (session number,
\* platform rank, group letter), with Red < White < Blue < Stars < Stripes <
\* Rogue < every other platform name.
C4_ListOrder ==
    (variant = "pdf" /\ pc = "done") =>
        /\ IsPermutation(Written, Given)
        /\ \A k \in 1..(Len(Written) - 1) :
              ~LexLess(ListKey(Written[k + 1]), ListKey(Written[k]))

\* three records were written in another order than they were parsed in,
\* one of them on a platform outside the table
C4_Witness ==
    /\ variant = "pdf"
    /\ pc = "done"
    /\ Len(Written) = 3
    /\ Written # Given
    /\ \E k \in 1..3 : PlatformRank(Written[k].session.platform) = Len(PlatformTable) + 1
    /\ \E k \in 1..3 : PlatformRank(Written[k].session.platform) = 1

-----------------------------------------------------------------------------
(* The roster order of usamw save_to_csv, as the claims state it.          *)

\* the number of a weight class string, and whether it is a '+' class
WeightBase(weight_class) == ToInt(SubSeq(weight_class, 1, SkipDigits(weight_class, 1) - 1))
WeightPlus(weight_class) == Contains(weight_class, "+")

\* weight class a comes before or with weight class b
WeightLeq(a, b) ==
    \/ WeightBase(a) < WeightBase(b)
    \/ WeightBase(a) = WeightBase(b) /\ (WeightPlus(a) => WeightPlus(b))

\* the weight_class column of the rows written after the header row
WrittenWeightClasses == [k \in 1..(Len(out) - 1) |-> out[k + 1][6]]

\* C5: the rows of the roster are the parsed records, every Female one
\* before every Male one, ages non-increasing within a gender, weight
\* classes ascending within equal gender and age with a '+' class after its
\* base class and before the next base; the weight_class written is the
\* stored string.
C5_RosterOrder ==
    (variant = "usamw" /\ pc = "done") =>
        /\ IsPermutation(sorted_data, data)
        /\ Len(out) = Len(data) + 1
        /\ WrittenWeightClasses = [k \in 1..Len(sorted_data) |-> sorted_data[k].weight_class]
        /\ \A i, j \in 1..Len(sorted_data) :
              i < j =>
                LET a == sorted_data[i]
                    b == sorted_data[j]
                IN  /\ a.gender = "Male" => b.gender = "Male"
                    /\ a.gender = b.gender => a.age >= b.age
                    /\ (a.gender = b.gender /\ a.age = b.age) =>
                          WeightLeq(a.weight_class, b.weight_class)

\* a Male record, then a '+' class, then its base class were parsed, and the
\* roster has the base class, the '+' class, the Male record
C5_Witness ==
    /\ variant = "usamw"
    /\ pc = "done"
    /\ Len(data) = 3
    /\ data[1].gender = "Male"
    /\ data[2].weight_class = "81+kg"
    /\ data[3].weight_class = "81kg"
    /\ data[2].age = data[3].age
    /\ WrittenWeightClasses[1] = "81kg"
    /\ WrittenWeightClasses[2] = "81+kg"

-----------------------------------------------------------------------------
(* Stability of the two sorts.                                             *)

RosterKey(x) == << x.gender, x.age, WeightBase(x.weight_class), WeightPlus(x.weight_class) >>

\* the records of seq with the key k, in the order of seq
WithListKey(seq, k) == SelectSeq(seq, LAMBDA x : ListKey(x) = k)
WithRosterKey(seq, k) == SelectSeq(seq, LAMBDA x : RosterKey(x) = k)

\* C6: both sorts are stable: the records that share a sort key are written
\* in the order they were parsed in.
C6_StableSorts ==
    /\ (variant = "pdf" /\ pc = "done") =>
          \A i \in 1..Len(Given) :
              WithListKey(Written, ListKey(Given[i])) = WithListKey(Given, ListKey(Given[i]))
    /\ (variant = "usamw" /\ pc = "done") =>
          \A i \in 1..Len(data) :
              WithRosterKey(sorted_data, RosterKey(data[i]))
                  = WithRosterKey(data, RosterKey(data[i]))

\* two different records with the same list key were parsed after a record
\* with a greater key
C6_Witness ==
    /\ variant = "pdf"
    /\ pc = "done"
    /\ Len(Given) = 3
    /\ Given[2] # Given[3]
    /\ ListKey(Given[2]) = ListKey(Given[3])
    /\ LexLess(ListKey(Given[2]), ListKey(Given[1]))

-----------------------------------------------------------------------------
(* Group boundaries of save_to_json.                                       *)

\* the (session number, platform) pair of a written record
GroupOf(e) == << e.session.number, e.session.platform >>

\* positions in out of the record lines, and of the blank lines
EntryLines == {q \in 1..Len(out) : out[q].kind = "entry"}
BlankLines == {q \in 1..Len(out) : out[q].kind = "blank"}

\* the number of the record written at line q of out
EntryNumber(q) == Cardinality({r \in EntryLines : r <= q})

\* C7: while save_to_json writes the sorted records, a blank line stands
\* before a record exactly when the record is not the first one and its
\* (session number, platform) pair differs from that of the record written
\* before it; there is no other blank line, so the blank lines are as many
\* as the adjacent pairs that differ; the tracking state is empty when the
\* writing starts.
C7_GroupBoundaries ==
    (variant = "pdf" /\ pc \in {"emit", "done"}) =>
        /\ Written = SubSeq(filtered_data, 1, emitted)
        /\ \A q \in EntryLines :
              (out[q - 1].kind = "blank") <=>
                  /\ EntryNumber(q) > 1
                  /\ GroupOf(Written[EntryNumber(q)]) # GroupOf(Written[EntryNumber(q) - 1])
        /\ \A q \in BlankLines : q < Len(out) /\ out[q + 1].kind = "entry"
        /\ Cardinality(BlankLines)
              = Cardinality({k \in 1..(Len(Written) - 1) :
                                GroupOf(Written[k]) # GroupOf(Written[k + 1])})
        /\ emitted = 0 => current_session_number = PyNone /\ current_platform = PyNone

\* three records were written: the second in the group of the first, the
\* third on the same platform in another session
C7_Witness ==
    /\ variant = "pdf"
    /\ pc = "done"
    /\ Len(Written) = 3
    /\ GroupOf(Written[1]) = GroupOf(Written[2])
    /\ Written[2].session.platform = Written[3].session.platform
    /\ Written[2].session.number # Written[3].session.number
    /\ Cardinality(BlankLines) = 1

-----------------------------------------------------------------------------
(* Diagnostics of the heterogeneous variant.                               *)

\* the stripped lines after the header that the loop has read and that
\* neither are empty nor are dropped as page furniture
CandidateLines ==
    LET h == HeaderScan(text)
    IN  SelectSeq([k \in 1..(nread - h) |-> Strip(text[h + k])],
                  LAMBDA l : l # "" /\ ~IsNoiseLine(l))

\* what the field searches give for the candidate lines
FieldSearches ==
    LET cand == CandidateLines
    IN  [k \in 1..Len(cand) |->
            LET parts == Split(cand[k])
            IN  OtherOutcome(cand[k], parts, OtherPositions(parts))]

\* C8: in the heterogeneous variant every candidate line with a required
\* field that is not found gives exactly one skipped diagnostic naming the
\* field and no entry, and the entries are those of the candidate lines with
\* every required field found, in the order of the text.
C8_MissingFieldDiagnosed ==
    (variant = "other" /\ pc # "scan") =>
        LET missing  == SelectSeq(FieldSearches, LAMBDA r : r.kind = "skipped")
            complete == SelectSeq(FieldSearches, LAMBDA r : r.kind = "entry")
        IN  /\ skipped = [k \in 1..Len(missing) |-> missing[k].reason]
            /\ entries = [k \in 1..Len(complete) |-> complete[k].entry]

\* the age of an entry as a number; the tabular variant keeps it as text
AgeOf(e) == IF variant = "pdf" THEN ToInt(e.age) ELSE e.age

\* C9: every entry of every variant has an age from 1 to 99.
C9_AgeInRange ==
    \A i \in 1..Len(entries) : AgeLo <= AgeOf(entries[i]) /\ AgeOf(entries[i]) <= AgeHi

\* two or three digits, an optional '+', then "kg"
WellFormedWeightClass(weight_class) ==
    LET d == SkipDigits(weight_class, 1) - 1
    IN  /\ d \in {2, 3}
        /\ \/ SubSeq(weight_class, d + 1, Len(weight_class)) = "kg"
           \/ SubSeq(weight_class, d + 1, Len(weight_class)) = "+kg"

\* C10: every entry of the usamw and of the heterogeneous variant has a
\* weight_class of two or three digits, an optional '+' and "kg".
C10_WeightClassForm ==
    variant \in {"usamw", "other"} =>
        \A i \in 1..Len(entries) : WellFormedWeightClass(entries[i].weight_class)

-----------------------------------------------------------------------------
(* Numeric fields of the tabular variant.                                  *)

\* C11: every record save_to_json writes carries entryTotal and age as
\* integers: a line whose entry total holds a character that is no digit
\* gives no record.
C11_NumericFieldsAreIntegers ==
    (variant = "pdf" /\ pc \in {"emit", "done"}) =>
        \A k \in 1..Len(Written) :
            Written[k].entryTotal.t = "int" /\ Written[k].age.t = "int"

\* C12: in every variant the serializer runs only after at least one entry
\* was parsed, and a run that parsed nothing ends in the error outcome: a
\* run is never in or past its serializer with no parsed entry.
C12_NoOutputWithoutEntries ==
    /\ pc \in {"emit", "done"} => data # <<>>
    /\ pc = "error" => data = <<>>

-----------------------------------------------------------------------------
(* Gender of the heterogeneous variant.                                    *)

\* the candidate lines every required field was found in
CompleteLines ==
    LET cand == CandidateLines
        found == FieldSearches
        at == SelectSeq([k \in 1..Len(cand) |-> k], LAMBDA k : found[k].kind = "entry")
    IN  [k \in 1..Len(at) |-> cand[at[k]]]

\* whether the weight class of a line is read from a W/M-prefixed token
WeightFromCategory(parts) ==
    LET w == parts[OtherWeightPos(parts)]
    IN  (StartsWith(w, "W") \/ StartsWith(w, "M")) /\ AnyIn(w, Digits)

\* the gender the rules give for a line
GenderRule(line) ==
    LET parts == Split(line)
        w == parts[OtherWeightPos(parts)]
    IN  IF WeightFromCategory(parts)
        THEN (IF StartsWith(w, "W") THEN "Female" ELSE "Male")
        ELSE IF \E k \in 1..Len(parts) : parts[k] = "MILMW" THEN "Female"
        ELSE IF Contains(line, ", Ms") \/ Contains(line, ", Mrs") \/ Contains(line, "MISS")
        THEN "Female"
        ELSE "Male"

SkipReasons ==
    { "Skipped (no valid ID): ", "Skipped (no comma in name): ",
      "Skipped (no age found): ", "Skipped (no total found): ",
      "Skipped (no weight class found): " }

\* C13: every entry of the heterogeneous variant has the gender Female or
\* Male: the one of the W/M-prefixed token when the weight class was read
\* from it, else Female when the line has the token MILMW or one of
\* ', Ms', ', Mrs', 'MISS', else Male; every line with the other fields
\* found gives an entry and no diagnostic is about the gender.
C13_GenderResolved ==
    (variant = "other" /\ pc = "parsed") =>
        /\ LET complete == CompleteLines
           IN  /\ Len(entries) = Len(complete)
               /\ \A k \in 1..Len(entries) :
                     /\ entries[k].gender \in {"Female", "Male"}
                     /\ entries[k].gender = GenderRule(complete[k])
        /\ \A k \in 1..Len(skipped) : \E r \in SkipReasons : StartsWith(skipped[k], r)

\* three entries: Female by a title on a line that starts with its weight
\* class, Female by MILMW, Male by default
C13_Witness ==
    /\ variant = "other"
    /\ pc = "parsed"
    /\ Len(entries) = 3
    /\ CompleteLines[1] = "81 200 45 Moe, Ms Sue 120 Club"
    /\ entries[1].gender = "Female"
    /\ CompleteLines[2] = "GA 12345 45 Zed, Al 150 Club MILMW"
    /\ entries[2].gender = "Female"
    /\ CompleteLines[3] = "GA 123 45 Poe, Ann 150 Club"
    /\ entries[3].gender = "Male"

-----------------------------------------------------------------------------
(* The data region of the tabular variant.                                 *)

IsHeaderLine(line) == Contains(line, PdfHeader)
IsPresentedByLine(line) == Contains(line, PdfPresentedBy)

\* C14: in the tabular variant the entries stay empty until the header line
\* has been read; only a header line opens the data region, and once open it
\* stays open; a header line and a 'Start List presented by:' line never
\* give an entry, and after the header every other line gives what the
\* anchors find in it, also after a repeated header.
C14_HeaderGating ==
    [][ (variant = "pdf" /\ pc = "parse" /\ pc' = "parse") =>
          /\ ~start_processing => entries = <<>>
          /\ ~start_processing' => entries' = <<>>
          /\ start_processing => start_processing'
          /\ (start_processing' /\ ~start_processing) => IsHeaderLine(cur'[1])
          /\ (IsHeaderLine(cur'[1]) \/ IsPresentedByLine(cur'[1])) => entries' = entries
          /\ (start_processing /\ ~IsHeaderLine(cur'[1]) /\ ~IsPresentedByLine(cur'[1])
                /\ cur'[1] # "")
                => entries' = entries \o PdfParseLine(cur'[1])
      ]_vars

\* a data line was read and gave no entry, because no header had been read
C14_Witness ==
    /\ variant = "pdf"
    /\ pc = "parse"
    /\ ~start_processing
    /\ cur # <<>>
    /\ PdfParseLine(cur[1]) # <<>>
    /\ entries = <<>>

\* the tokens after the group letter of a line, in a one-element sequence,
\* when the line starts with a lot number and the state code, the age right
\* after it, the gender letter and the slash-preceded group letter are each
\* found at the first match after the end of the anchor before; <<>> when
\* an anchor is not found
TrailingTokens(line) ==
    LET lot_end     == SkipDigits(line, 1)
        after_lot   == Strip(SubSeq(line, lot_end, Len(line)))
        state_at    == StateSearch(after_lot)
        after_state == Strip(SubSeq(after_lot, state_at + 4, Len(after_lot)))
        age_digits  == SkipDigits(after_state, 1) - 1
        after_age   == Strip(SubSeq(after_state,
                                    (IF age_digits > 2 THEN 2 ELSE age_digits) + 1,
                                    Len(after_state)))
        gender_at   == GenderSearch(after_age)
        after_gender == Strip(SubSeq(after_age, gender_at + 3, Len(after_age)))
        group_at    == GroupSearch(after_gender)
    IN  IF lot_end = 1 \/ state_at = 0 \/ age_digits = 0 \/ gender_at = 0 \/ group_at = <<>>
        THEN <<>>
        ELSE << Split(SubSeq(after_gender, group_at[3] + 1, Len(after_gender))) >>

\* a step of the line loop on a line of the data region gives exactly one
\* entry when the anchors are found and at least n tokens follow the group,
\* and leaves the entries as they are otherwise
AnchoredLineStep(n) ==
    (/\ variant = "pdf" /\ pc = "parse" /\ pc' = "parse"
     /\ start_processing
     /\ cur'[1] # ""
     /\ ~IsHeaderLine(cur'[1])
     /\ ~IsPresentedByLine(cur'[1]))
        => /\ start_processing'
           /\ LET t == TrailingTokens(cur'[1])
              IN  IF t # <<>> /\ Len(t[1]) >= n
                  THEN /\ Len(entries') = Len(entries) + 1
                       /\ SubSeq(entries', 1, Len(entries)) = entries
                  ELSE entries' = entries

\* C15: in the tabular variant a line after the header gives exactly one
\* entry when it starts with a lot number, the state code, age, gender and
\* group anchors are found in that order, and the four trailing tokens
\* entry total, session+platform, day and time follow the group; any other
\* line gives no entry and leaves the entries of the other lines as they
\* are.
C15_AnchoredLines == [][AnchoredLineStep(4)]_vars

-----------------------------------------------------------------------------
(* The tokens the heterogeneous variant reads the fields from.             *)

\* C16: for every entry of the heterogeneous variant the identifier, the
\* age, the entry total and the weight class are read from four different
\* tokens of the line.
C16_FieldsFromDifferentTokens ==
    (variant = "other" /\ pc # "scan") =>
        LET found == FieldSearches
        IN  \A k \in 1..Len(found) :
                found[k].kind = "entry" =>
                    Cardinality({found[k].pos.id_pos, found[k].pos.age_pos,
                                 found[k].pos.total_pos, found[k].pos.weight_pos}) = 4

=============================================================================
